---- MODULE Spec2Model ----
(***************************************************************************)
(* tinychain: a node that validates and connects blocks, keeps a UTXO set  *)
(* and a mempool, and mines on a separate thread.                          *)
(*                                                                         *)
(* Conventions of the model                                                *)
(*  - An operator named after a Python function computes what the         *)
(*    function computes.  A function that can raise returns a record with  *)
(*    a field exc: "none" for a normal return, else the exception's class. *)
(*  - Functions that change the module globals take the globals as a       *)
(*    record S and return the globals they leave behind (field S), also    *)
(*    when they raise half way.                                            *)
(*  - sha256d is an injective wrapper around the string it hashes; the     *)
(*    integer value of a block hash is given by Digest.                    *)
(*  - Values are counted in coins: the unit is BELUSHIS_PER_COIN belushis. *)
(*  - Spec runs the node one call at a time: a step is a whole             *)
(*    connect_block, accept_txn or round of mine_forever.  SpecThreads     *)
(*    runs the mining thread and two handler threads, which can overtake   *)
(*    one another wherever connect_block holds no lock.                    *)
(*  - A call that changes nothing is a stuttering step.  A property of    *)
(*    what one call leaves behind is stated on the record the operator of  *)
(*    the call returns, in every reachable state.                          *)
(***************************************************************************)
EXTENDS Integers, Sequences, FiniteSets, TLC

VARIABLES
    active_chain,    \* the list bound to the global active_chain
    side_branches,   \* the global side_branches
    orig_chain,      \* the list object that is find_block's default `chain`
    rebound,         \* TRUE once try_reorg has rebound active_chain
    utxo_set,        \* the values of the dict utxo_set
    mempool,         \* the values of the dict mempool, in insertion order
    orphan_txns,
    orphan_blocks,
    mine_interrupt,  \* the threading.Event
    sent,            \* what send_to_peer has sent: <<peer, id>>
    now,             \* time.time()
    miner,           \* the mining thread: its position and its locals
    handlers         \* the TCP handler threads inside connect_block

vars == <<active_chain, side_branches, orig_chain, rebound, utxo_set, mempool,
          orphan_txns, orphan_blocks, mine_interrupt, sent, now, miner,
          handlers>>

----------------------------------------------------------------------------
(* Bounds of the model *)

\* longest active chain the model builds
MaxChain == 4
\* longest active chain the model builds while the threads are watched
MaxRaceChain == 2
\* entries kept in orphan_blocks and in orphan_txns
MaxOrphans == 1
\* width in bits of a block hash read as an integer (256 in the code)
HASH_BITS == 28
\* belushis in the unit in which the model counts value (the code counts in
\* belushis, 10^8 to the coin; the model counts in coins)
BELUSHIS_PER_COIN == 1

----------------------------------------------------------------------------
(* Params *)

COINBASE_MATURITY == 2
MAX_FUTURE_BLOCK_TIME == 60 * 60 * 2
TOTAL_COINS == 21000000
MAX_MONEY == BELUSHIS_PER_COIN * TOTAL_COINS
TIME_BETWEEN_BLOCKS_IN_SECS_TARGET == 1 * 60
DIFFICULTY_PERIOD_IN_SECS_TARGET == 60 * 60 * 10
DIFFICULTY_PERIOD_IN_BLOCKS ==
    DIFFICULTY_PERIOD_IN_SECS_TARGET \div TIME_BETWEEN_BLOCKS_IN_SECS_TARGET
INITIAL_DIFFICULTY_BITS == 22
HALVE_SUBSIDY_AFTER_BLOCKS_NUM == 210000
ACTIVE_CHAIN_IDX == 0
\* the nonce at which mine() polls mine_interrupt
POLL_EVERY == 10000

\* Python's None, where a string is expected
None == "None"
\* Python's None, where an OutPoint is expected
NoOutPoint == [txid |-> None, txout_idx |-> -1]

peerlist == <<"peer1", "peer2">>

----------------------------------------------------------------------------
(* Sequence helpers *)

Range(s) == {s[i] : i \in DOMAIN s}

RECURSIVE SumSeq(_)
SumSeq(s) == IF s = <<>> THEN 0 ELSE Head(s) + SumSeq(Tail(s))

RECURSIVE Concat(_)
Concat(s) == IF s = <<>> THEN "" ELSE Head(s) \o Concat(Tail(s))

\* the sequences of a sequence, joined
RECURSIVE Concat2(_)
Concat2(ss) == IF ss = <<>> THEN <<>> ELSE Head(ss) \o Concat2(Tail(ss))

Reverse(s) == [i \in 1..Len(s) |-> s[Len(s) + 1 - i]]

\* s without its i-th element
RemoveAt(s, i) == [k \in 1..(Len(s) - 1) |-> IF k < i THEN s[k] ELSE s[k + 1]]

\* s[a:b] of Python, for 0 <= a
Slice(s, a, b) ==
    IF a >= Len(s) \/ b <= a THEN <<>>
    ELSE SubSeq(s, a + 1, IF b > Len(s) THEN Len(s) ELSE b)

----------------------------------------------------------------------------
(* Serialization and hashing *)

sha256d(s) == "h(" \o s \o ")"

ser_outpoint(op) ==
    IF op = NoOutPoint THEN "null"
    ELSE "{" \o op.txid \o "," \o ToString(op.txout_idx) \o "}"

ser_txin(i) ==
    "{" \o ToString(i.sequence) \o "," \o ser_outpoint(i.to_spend) \o ","
        \o i.unlock_pk \o "," \o i.unlock_sig \o "}"

ser_txout(o) == "{" \o o.to_address \o "," \o ToString(o.value) \o "}"

ser_txouts(outs) == "[" \o Concat([k \in DOMAIN outs |-> ser_txout(outs[k])]) \o "]"

\* serialize(txn)
serialize(txn) ==
    "{[" \o Concat([k \in DOMAIN txn.txins |-> ser_txin(txn.txins[k])]) \o "],"
         \o ser_txouts(txn.txouts) \o "}"

\* Transaction.id
TxId(txn) == sha256d(serialize(txn))

\* Block.header(): the fields run together, None printed as "None"
header(block) ==
    ToString(block.version) \o block.prev_block_hash \o block.merkle_hash
        \o ToString(block.timestamp) \o ToString(block.bits)
        \o ToString(block.nonce)

\* Block.id
BlockId(block) == sha256d(header(block))

pubkey_to_address(pk) == "A" \o pk

\* the public keys of the wallet of this node and of a peer
my_pk == "me"
peer_pk == "bob"
my_address == pubkey_to_address(my_pk)

build_spend_message(to_spend, pk, sequence, txouts) ==
    sha256d(ser_outpoint(to_spend) \o ToString(sequence) \o pk
                \o ser_txouts(txouts))

\* signing_key.sign(msg) for the key whose public half is pk
Sign(pk, msg) == "sig(" \o pk \o "," \o msg \o ")"

\* verifying_key.verify(sig, msg)
Verify(pk, sig, msg) == sig = Sign(pk, msg)

----------------------------------------------------------------------------
(* Merkle trees *)

\* find_root: pairs the nodes of one level; a level of odd length leaves a
\* chunk of one node, which the unpacking `for [i1, i2] in` refuses
RECURSIVE find_root(_)
find_root(nodes) ==
    IF nodes = <<>> THEN [exc |-> "IndexError", val |-> ""]
    ELSE IF Len(nodes) % 2 = 1 THEN [exc |-> "ValueError", val |-> ""]
    ELSE LET newlevel == [k \in 1..(Len(nodes) \div 2) |->
                             sha256d(nodes[2 * k - 1] \o nodes[2 * k])]
         IN  IF Len(newlevel) > 1 THEN find_root(newlevel)
             ELSE [exc |-> "none", val |-> newlevel[1]]

\* get_merkle_root(*leaves): only the leaves are padded to an even length
get_merkle_root(leaves) ==
    LET padded == IF Len(leaves) % 2 = 1
                  THEN Append(leaves, leaves[Len(leaves)]) ELSE leaves
    IN  find_root([k \in DOMAIN padded |-> sha256d(padded[k])])

get_merkle_root_of_txns(txns) ==
    get_merkle_root([k \in DOMAIN txns |-> TxId(txns[k])])

----------------------------------------------------------------------------
(* Transactions and blocks *)

TxIn(to_spend, unlock_sig, unlock_pk, sequence) ==
    [to_spend |-> to_spend, unlock_sig |-> unlock_sig,
     unlock_pk |-> unlock_pk, sequence |-> sequence]

TxOut(value, to_address) == [value |-> value, to_address |-> to_address]

OutPoint(txid, txout_idx) == [txid |-> txid, txout_idx |-> txout_idx]

Transaction(txins, txouts) == [txins |-> txins, txouts |-> txouts]

\* Transaction.is_coinbase
is_coinbase(txn) ==
    Len(txn.txins) = 1 /\ txn.txins[1].to_spend = NoOutPoint

\* Transaction.create_coinbase
create_coinbase(pay_to_addr, value, height) ==
    Transaction(<<TxIn(NoOutPoint, ToString(height), None, 0)>>,
                <<TxOut(value, pay_to_addr)>>)

\* Transaction.validate_basics: TRUE when it raises TxnValidationError
\* (no transaction of the model comes near MAX_BLOCK_SERIALIZED_SIZE)
validate_basics_raises(txn, as_coinbase) ==
    \/ txn.txouts = <<>>
    \/ (txn.txins = <<>> /\ ~as_coinbase)
    \/ SumSeq([k \in DOMAIN txn.txouts |-> txn.txouts[k].value]) > MAX_MONEY

Block(prev_block_hash, merkle_hash, timestamp, bits, nonce, txns) ==
    [version |-> 0, prev_block_hash |-> prev_block_hash,
     merkle_hash |-> merkle_hash, timestamp |-> timestamp, bits |-> bits,
     nonce |-> nonce, txns |-> txns]

\* a value no block equals: the None of find_block's result
NoBlock == [version |-> -1]

genesis_txn ==
    Transaction(<<>>, <<TxOut(50 * BELUSHIS_PER_COIN,
                              "143UVyz7ooiAv1pMqbwPPpnH4BV9ifJGFF")>>)

\* the literal's merkle_hash is the merkle root of its one transaction
genesis_block ==
    Block(None, get_merkle_root_of_txns(<<genesis_txn>>).val, 1501396299, 26,
          1845989, <<genesis_txn>>)

----------------------------------------------------------------------------
(* Proof of work *)

\* 1 << (256 - bits), on HASH_BITS bits
Target(bits) == 2 ^ (HASH_BITS - bits)

\* the nonce whose hash is the first below the initial target: mine() polls
\* mine_interrupt once before it gets there
SOLVING_NONCE == POLL_EVERY + 1
\* a nonce whose hash equals the initial target
BOUNDARY_NONCE == POLL_EVERY \div 2

\* int(block.id, 16): the hash depends on the nonce alone in the model.  The
\* genesis literal hashes to 0x8775..., which has the top bit set.
Digest(block) ==
    CASE block.nonce = SOLVING_NONCE -> Target(INITIAL_DIFFICULTY_BITS) - 1
      [] block.nonce = BOUNDARY_NONCE -> Target(INITIAL_DIFFICULTY_BITS)
      [] block.nonce = genesis_block.nonce -> 2 ^ (HASH_BITS - 1)
      [] OTHER -> 2 ^ HASH_BITS - 1

----------------------------------------------------------------------------
(* Chain queries.  S is the record of the module globals. *)

NotFound == [found |-> FALSE, block |-> NoBlock, height |-> -1, chain_idx |-> -1]

\* find_block(block_hash, chain): `chain` is <<>> for None; an empty list is
\* as falsy as None, and then every chain is searched
find_block(block_hash, chain, S) ==
    LET chains == IF chain /= <<>> THEN <<chain>>
                  ELSE <<S.active_chain>> \o S.side_branches
        hits == {p \in {<<c, h>> : c \in DOMAIN chains, h \in 1..MaxChain + 2} :
                    /\ p[2] <= Len(chains[p[1]])
                    /\ BlockId(chains[p[1]][p[2]]) = block_hash}
        first == CHOOSE p \in hits :
                    \A q \in hits : p[1] < q[1] \/ (p[1] = q[1] /\ p[2] <= q[2])
    IN  IF hits = {} THEN NotFound
        ELSE [found |-> TRUE, block |-> chains[first[1]][first[2]],
              height |-> first[2] - 1, chain_idx |-> first[1] - 1]

\* get_current_height()
get_current_height(S) == Len(S.active_chain)

\* get_median_time_past(num_last_blocks)
get_median_time_past(num_last_blocks, S) ==
    LET last_n_blocks == Slice(Reverse(S.active_chain), 0, num_last_blocks)
    IN  IF last_n_blocks = <<>> THEN 0
        ELSE last_n_blocks[(Len(last_n_blocks) \div 2) + 1].timestamp

\* get_next_work_required(prev_block_hash), for a difficulty period of
\* `period` blocks.  An unknown previous block gives
\* prev_height = None and None + 1 raises TypeError.  At the end of a period
\* the index max(prev_height - (DIFFICULTY_PERIOD_IN_BLOCKS - 1), 0) is a
\* float, DIFFICULTY_PERIOD_IN_BLOCKS being the quotient of a true division,
\* and a list refuses a float index with TypeError.
next_work_required(prev_block_hash, S, period) ==
    LET of_prev(f) ==
            IF ~f.found THEN [exc |-> "TypeError", val |-> 0]
            ELSE IF (f.height + 1) % period /= 0
            THEN [exc |-> "none", val |-> f.block.bits]
            ELSE [exc |-> "TypeError", val |-> 0]
    IN  IF prev_block_hash = None
        THEN [exc |-> "none", val |-> INITIAL_DIFFICULTY_BITS]
        ELSE of_prev(find_block(prev_block_hash, <<>>, S))

get_next_work_required(prev_block_hash, S) ==
    next_work_required(prev_block_hash, S, DIFFICULTY_PERIOD_IN_BLOCKS)

\* get_block_subsidy()
get_block_subsidy(S) ==
    LET halvings == Len(S.active_chain) \div HALVE_SUBSIDY_AFTER_BLOCKS_NUM
    IN  IF halvings >= 64 THEN 0
        ELSE (50 * BELUSHIS_PER_COIN) \div (2 ^ halvings)

----------------------------------------------------------------------------
(* The UTXO set *)

UnspentTxOut(value, to_address, txid, tx_idx, coinbase, height) ==
    [value |-> value, to_address |-> to_address, txid |-> txid,
     tx_idx |-> tx_idx, is_coinbase |-> coinbase, height |-> height]

\* UnspentTxOut.outpoint
outpoint(utxo) == OutPoint(utxo.txid, utxo.tx_idx)

\* the None of utxo_set.get
NoUTXO == [txid |-> None]

\* utxo_set.get(to_spend)
utxo_get(utxos, to_spend) ==
    IF \E u \in utxos : outpoint(u) = to_spend
    THEN CHOOSE u \in utxos : outpoint(u) = to_spend
    ELSE NoUTXO

\* add_to_utxo: utxo_set[utxo.outpoint] = utxo
add_to_utxo(utxos, txout, tx, idx, coinbase, height) ==
    LET utxo == UnspentTxOut(txout.value, txout.to_address, TxId(tx), idx,
                             coinbase, height)
    IN  {u \in utxos : outpoint(u) /= outpoint(utxo)} \cup {utxo}

\* rm_from_utxo: del utxo_set[OutPoint(txid, tx_idx)], KeyError when absent
rm_from_utxo(utxos, to_spend) ==
    IF utxo_get(utxos, to_spend) = NoUTXO
    THEN [exc |-> "KeyError", utxos |-> utxos]
    ELSE [exc |-> "none",
          utxos |-> {u \in utxos : outpoint(u) /= to_spend}]

----------------------------------------------------------------------------
(* The mempool: a dict from txid to Transaction, kept as the sequence of its
   values in insertion order *)

in_mempool(pool, txid) == \E k \in DOMAIN pool : TxId(pool[k]) = txid

\* mempool[txn.id] = txn
mempool_set(pool, txn) ==
    IF in_mempool(pool, TxId(txn)) THEN pool ELSE Append(pool, txn)

\* mempool.pop(txid, None)
mempool_pop(pool, txid) == SelectSeq(pool, LAMBDA t : TxId(t) /= txid)

\* find_utxo_in_mempool(txin): txin.to_spend.txid of a None to_spend raises
\* AttributeError; a parent found in the mempool is handed to
\* UnspentTxOut.from_mempool_txn as its id, a str, whose .txouts raises
\* AttributeError; otherwise the result is None
find_utxo_in_mempool(txin, S) ==
    IF txin.to_spend = NoOutPoint THEN [exc |-> "AttributeError"]
    ELSE IF in_mempool(S.mempool, txin.to_spend.txid)
    THEN [exc |-> "AttributeError"]
    ELSE [exc |-> "none"]

----------------------------------------------------------------------------
(* Validation *)

\* validate_signature_for_spend: TRUE when it raises TxUnlockError
validate_signature_raises(txin, utxo, txn) ==
    \/ pubkey_to_address(txin.unlock_pk) /= utxo.to_address
    \/ ~Verify(txin.unlock_pk, txin.unlock_sig,
               build_spend_message(txin.to_spend, txin.unlock_pk,
                                   txin.sequence, txn.txouts))

\* the loop body with the maturity test one block short: a fault the maturity
\* property has to tell from the code
validate_txin_early(txn, txin, allow_utxo_from_mempool, S) ==
    LET utxo == utxo_get(S.utxo_set, txin.to_spend)
    IN  IF utxo = NoUTXO
        THEN [exc |-> "TxnValidationError", to_orphan |-> TRUE]
        ELSE IF utxo.is_coinbase
                  /\ (get_current_height(S) - utxo.height) < COINBASE_MATURITY - 1
        THEN [exc |-> "TxnValidationError", to_orphan |-> FALSE]
        ELSE IF validate_signature_raises(txin, utxo, txn)
        THEN [exc |-> "TxnValidationError", to_orphan |-> FALSE]
        ELSE [exc |-> "none", to_orphan |-> FALSE]

\* the body of validate_txn's loop for one input: the exception it raises,
\* "none" when the loop goes on
validate_txin(txn, txin, allow_utxo_from_mempool, S) ==
    LET utxo == utxo_get(S.utxo_set, txin.to_spend)
    IN  IF utxo = NoUTXO
        THEN IF allow_utxo_from_mempool
                    /\ find_utxo_in_mempool(txin, S).exc /= "none"
             THEN [exc |-> find_utxo_in_mempool(txin, S).exc, to_orphan |-> FALSE]
             ELSE [exc |-> "TxnValidationError", to_orphan |-> TRUE]
        ELSE IF utxo.is_coinbase
                  /\ (get_current_height(S) - utxo.height) < COINBASE_MATURITY
        THEN [exc |-> "TxnValidationError", to_orphan |-> FALSE]
        ELSE IF txin.unlock_pk = None
        THEN [exc |-> "TypeError", to_orphan |-> FALSE]
        ELSE IF validate_signature_raises(txin, utxo, txn)
        THEN [exc |-> "TxnValidationError", to_orphan |-> FALSE]
        ELSE [exc |-> "none", to_orphan |-> FALSE]

\* what a loop over res leaves: the first outcome that is an exception, in
\* the order of the loop, and ok when there is none
FirstRaise(res, ok) ==
    LET bad == {k \in DOMAIN res : res[k].exc /= "none"}
    IN  IF bad = {} THEN ok ELSE res[CHOOSE k \in bad : \A j \in bad : k <= j]

\* validate_txn(txn, as_coinbase, allow_utxo_from_mempool)
validate_txn(txn, as_coinbase, allow_utxo_from_mempool, S) ==
    LET ok == [exc |-> "none", to_orphan |-> FALSE]
        available_to_spend ==
            SumSeq([k \in DOMAIN txn.txins |->
                       utxo_get(S.utxo_set, txn.txins[k].to_spend).value])
        after_inputs(r) ==
            IF r.exc /= "none" THEN r
            ELSE IF available_to_spend
                      < SumSeq([k \in DOMAIN txn.txouts |-> txn.txouts[k].value])
            THEN [exc |-> "TxnValidationError", to_orphan |-> FALSE]
            ELSE ok
    IN  IF validate_basics_raises(txn, as_coinbase)
        THEN [exc |-> "TxnValidationError", to_orphan |-> FALSE]
        ELSE after_inputs(FirstRaise(
                 [k \in DOMAIN txn.txins |->
                     validate_txin(txn, txn.txins[k], allow_utxo_from_mempool, S)],
                 ok))

BlockValidationError(to_orphan) ==
    [exc |-> "BlockValidationError", to_orphan |-> to_orphan, chain_idx |-> -1]

\* the last part of validate_block: the non-coinbase transactions of a block
\* that extends the active chain, each validated against the UTXO set as it is
validate_block_txns(block, prev_block_chain_idx, S) ==
    LET after_txns(r) ==
            IF r.exc = "none"
            THEN [exc |-> "none", to_orphan |-> FALSE,
                  chain_idx |-> prev_block_chain_idx]
            ELSE IF r.exc = "TxnValidationError"
            THEN BlockValidationError(FALSE)
            ELSE [exc |-> r.exc, to_orphan |-> FALSE, chain_idx |-> -1]
    IN  after_txns(FirstRaise(
            [k \in 2..Len(block.txns) |->
                validate_txn(block.txns[k], FALSE, FALSE, S)],
            [exc |-> "none", to_orphan |-> FALSE]))

\* the part of validate_block that locates the previous block
validate_block_prev(block, S) ==
    LET of_prev(f) ==
            IF ~f.found THEN BlockValidationError(TRUE)
            ELSE IF f.chain_idx /= ACTIVE_CHAIN_IDX
            THEN [exc |-> "none", to_orphan |-> FALSE, chain_idx |-> f.chain_idx]
            ELSE IF f.block /= S.active_chain[Len(S.active_chain)]
            THEN [exc |-> "none", to_orphan |-> FALSE,
                  chain_idx |-> f.chain_idx + 1]
            ELSE validate_block_txns(block, f.chain_idx, S)
    IN  IF block.prev_block_hash = None /\ S.active_chain = <<>>
        THEN validate_block_txns(block, ACTIVE_CHAIN_IDX, S)
        ELSE of_prev(find_block(block.prev_block_hash, <<>>, S))

\* validate_block(block) at time t: the exception it raises, or the chain
\* index it returns
validate_block(block, S, t) ==
    LET after_basics(root, work) ==
            IF root.exc /= "none"
            THEN [exc |-> root.exc, to_orphan |-> FALSE, chain_idx |-> -1]
            ELSE IF root.val /= block.merkle_hash
            THEN BlockValidationError(FALSE)
            ELSE IF work.exc /= "none"
            THEN [exc |-> work.exc, to_orphan |-> FALSE, chain_idx |-> -1]
            ELSE IF work.val /= block.bits
            THEN BlockValidationError(FALSE)
            ELSE IF block.timestamp <= get_median_time_past(11, S)
            THEN BlockValidationError(FALSE)
            ELSE validate_block_prev(block, S)
    IN  IF block.txns = <<>> THEN BlockValidationError(FALSE)
        ELSE IF block.timestamp - t > MAX_FUTURE_BLOCK_TIME
        THEN BlockValidationError(FALSE)
        ELSE IF Digest(block) > Target(block.bits)
        THEN BlockValidationError(FALSE)
        ELSE IF {k \in DOMAIN block.txns : is_coinbase(block.txns[k])} /= {1}
        THEN BlockValidationError(FALSE)
        ELSE IF \E k \in DOMAIN block.txns :
                    validate_basics_raises(block.txns[k], k = 1)
        THEN BlockValidationError(FALSE)
        ELSE after_basics(get_merkle_root_of_txns(block.txns),
                          get_next_work_required(block.prev_block_hash, S))

----------------------------------------------------------------------------
(* Gossip *)

\* for peer in peerlist: send_to_peer(data, peer)
send_to_peers(log, id) == log \cup {<<peerlist[k], id>> : k \in DOMAIN peerlist}

----------------------------------------------------------------------------
(* Reorganization *)

\* try_reorg(branch, branch_idx, fork_idx) at time t.  The blocks of the
\* branch are validated one after the other; res is the outcome of the loop
\* over branch[k..]: the globals it leaves, and "BlockValidationError" when a
\* block fails, another class when validate_block raises something else.
RECURSIVE try_reorg_loop(_, _, _, _)
try_reorg_loop(branch, k, S, t) ==
    LET after_validate(v) ==
            IF v.exc /= "none" THEN [exc |-> v.exc, S |-> S]
            ELSE try_reorg_loop(branch, k + 1,
                    [S EXCEPT !.active_chain = Append(@, branch[k])], t)
    IN  IF k > Len(branch) THEN [exc |-> "none", S |-> S]
        ELSE after_validate(validate_block(branch[k], S, t))

\* mempool.pop(txn_id) for each id, KeyError at the first one that is absent
RECURSIVE mempool_pop_all(_, _)
mempool_pop_all(pool, ids) ==
    IF ids = <<>> THEN [exc |-> "none", pool |-> pool]
    ELSE IF ~in_mempool(pool, Head(ids)) THEN [exc |-> "KeyError", pool |-> pool]
    ELSE mempool_pop_all(mempool_pop(pool, Head(ids)), Tail(ids))

RECURSIVE mempool_set_all(_, _)
mempool_set_all(pool, txns) ==
    IF txns = <<>> THEN pool
    ELSE mempool_set_all(mempool_set(pool, Head(txns)), Tail(txns))

\* the transactions of the blocks of a chain, in order
RECURSIVE txns_of(_)
txns_of(chain) ==
    IF chain = <<>> THEN <<>> ELSE Head(chain).txns \o txns_of(Tail(chain))

try_reorg(branch, branch_idx, fork_idx, S, t) ==
    LET old_active_branch ==
            Slice(S.active_chain, fork_idx + 1, Len(S.active_chain))
        add == txns_of(branch)
        rm == [k \in DOMAIN txns_of(old_active_branch) |->
                  TxId(txns_of(old_active_branch)[k])]
        after_pop(S2, popped) ==
            IF popped.exc /= "none"
            THEN [exc |-> popped.exc, ret |-> FALSE,
                  S |-> [S2 EXCEPT !.mempool = popped.pool]]
            ELSE [exc |-> "none", ret |-> TRUE,
                  S |-> [S2 EXCEPT !.mempool = mempool_set_all(popped.pool, add)]]
        after_loop(loop) ==
            IF loop.exc = "BlockValidationError"
            THEN [exc |-> "none", ret |-> FALSE,
                  S |-> [loop.S EXCEPT !.active_chain =
                            Slice(@, 0, fork_idx) \o old_active_branch]]
            ELSE IF loop.exc /= "none"
            THEN [exc |-> loop.exc, ret |-> FALSE, S |-> loop.S]
            ELSE IF branch_idx >= Len(loop.S.side_branches)
            THEN [exc |-> "IndexError", ret |-> FALSE, S |-> loop.S]
            ELSE after_pop([loop.S EXCEPT !.side_branches =
                               Append(RemoveAt(@, branch_idx + 1),
                                      old_active_branch)],
                           mempool_pop_all(loop.S.mempool, rm))
    IN  after_loop(try_reorg_loop(branch, 1,
            [S EXCEPT !.active_chain = Slice(@, 0, fork_idx) \o branch,
                      !.rebound = TRUE], t))

\* reorg_if_necessary(): the first side branch whose fork block is not in
\* find_block's default chain adds None to a length, and the first one that
\* is higher than the active chain calls try_reorg(chain), two arguments
\* short: both raise TypeError.  Otherwise nothing is reorganized.
reorg_if_necessary(S) ==
    LET raises(f, branch) ==
            \/ ~f.found
            \/ Len(branch) + f.height > Len(S.active_chain)
    IN  IF \E i \in DOMAIN S.side_branches :
              raises(find_block(S.side_branches[i][1].prev_block_hash,
                                S.orig_chain, S),
                     S.side_branches[i])
        THEN [exc |-> "TypeError", reorged |-> FALSE]
        ELSE [exc |-> "none", reorged |-> FALSE]

----------------------------------------------------------------------------
(* connect_block *)

\* connect_block, first part: validate_block and the except clause.  A block
\* that fails with the orphan marker is appended to orphan_blocks; any other
\* exception class leaves the function.
connect_validate(block, S, t) ==
    LET after_validate(v) ==
            IF v.exc = "BlockValidationError"
            THEN [exc |-> "none", returned |-> TRUE, chain_idx |-> -1,
                  S |-> IF v.to_orphan
                        THEN [S EXCEPT !.orphan_blocks = Append(@, block)]
                        ELSE S]
            ELSE [exc |-> v.exc, returned |-> FALSE, chain_idx |-> v.chain_idx,
                  S |-> S]
    IN  after_validate(validate_block(block, S, t))

\* connect_block, second part: find_block(block.id)[0], with the default chain
connect_seen(block, S) == find_block(BlockId(block), S.orig_chain, S).found

\* the loops over the inputs and the outputs of one transaction
RECURSIVE rm_inputs(_, _)
rm_inputs(txins, utxos) ==
    IF txins = <<>> THEN [exc |-> "none", utxos |-> utxos]
    ELSE LET r == rm_from_utxo(utxos, Head(txins).to_spend)
         IN  IF r.exc /= "none" THEN r ELSE rm_inputs(Tail(txins), r.utxos)

RECURSIVE add_outputs(_, _, _, _)
add_outputs(tx, i, utxos, height) ==
    IF i > Len(tx.txouts) THEN utxos
    ELSE add_outputs(tx, i + 1,
            add_to_utxo(utxos, tx.txouts[i], tx, i - 1, is_coinbase(tx), height),
            height)

\* the loop `for tx in block.txns` of connect_block, from the k-th
\* transaction on; a KeyError of rm_from_utxo ends it where it stands
RECURSIVE connect_txns(_, _, _, _)
connect_txns(txns, k, S, height) ==
    IF k > Len(txns) THEN [exc |-> "none", S |-> S]
    ELSE LET tx == txns[k]
             S1 == [S EXCEPT !.mempool = mempool_pop(@, TxId(tx))]
             r == IF is_coinbase(tx) THEN [exc |-> "none", utxos |-> S1.utxo_set]
                  ELSE rm_inputs(tx.txins, S1.utxo_set)
         IN  IF r.exc /= "none"
             THEN [exc |-> r.exc, S |-> [S1 EXCEPT !.utxo_set = r.utxos]]
             ELSE connect_txns(txns, k + 1,
                     [S1 EXCEPT !.utxo_set = add_outputs(tx, 1, r.utxos, height)],
                     height)

\* connect_block, third part: from idx_to_chain(chain_idx) to the end
connect_apply(block, chain_idx, S) ==
    LET S1 == IF chain_idx = ACTIVE_CHAIN_IDX
              THEN [S EXCEPT !.active_chain = Append(@, block),
                             !.orig_chain = IF S.rebound THEN @
                                            ELSE Append(@, block)]
              ELSE [S EXCEPT !.side_branches[chain_idx] = Append(@, block)]
        height == IF chain_idx = ACTIVE_CHAIN_IDX THEN Len(S.active_chain) + 1
                  ELSE Len(S.side_branches[chain_idx]) + 1
        after_reorg(S2, reorg) ==
            IF reorg.exc /= "none" THEN [exc |-> reorg.exc, S |-> S2]
            ELSE [exc |-> "none",
                  S |-> [S2 EXCEPT
                           !.mine_interrupt =
                               IF reorg.reorged \/ chain_idx = ACTIVE_CHAIN_IDX
                               THEN TRUE ELSE @,
                           !.sent = send_to_peers(@, BlockId(block))]]
        after_txns(loop) ==
            IF loop.exc /= "none" THEN loop
            ELSE after_reorg(loop.S, reorg_if_necessary(loop.S))
    IN  IF chain_idx /= ACTIVE_CHAIN_IDX /\ chain_idx - 1 >= Len(S.side_branches)
        THEN [exc |-> "IndexError", S |-> S]
        ELSE after_txns(connect_txns(block.txns, 1, S1, height))

\* connect_block(block) at time t: ret is the chain index returned, -1 for None
connect_block(block, S, t) ==
    LET after_apply(v, a) ==
            IF a.exc /= "none" THEN [exc |-> a.exc, ret |-> -1, S |-> a.S]
            ELSE [exc |-> "none", ret |-> v.chain_idx, S |-> a.S]
        after_validate(v) ==
            IF v.exc /= "none" THEN [exc |-> v.exc, ret |-> -1, S |-> v.S]
            ELSE IF v.returned \/ connect_seen(block, v.S)
            THEN [exc |-> "none", ret |-> -1, S |-> v.S]
            ELSE after_apply(v, connect_apply(block, v.chain_idx, v.S))
    IN  after_validate(connect_validate(block, S, t))

----------------------------------------------------------------------------
(* accept_txn *)

\* accept_txn with the gossip moved above the try: a fault the outcome
\* property has to tell from the code
accept_txn_gossips_first(txn, S) ==
    LET after_validate(v) ==
            IF v.exc = "TxnValidationError" /\ v.to_orphan
            THEN [exc |-> "none",
                  S |-> [S EXCEPT !.orphan_txns = Append(@, txn),
                                  !.sent = send_to_peers(@, TxId(txn))]]
            ELSE IF v.exc /= "none"
            THEN [exc |-> "none", S |-> S]
            ELSE [exc |-> "none",
                  S |-> [S EXCEPT !.mempool = mempool_set(@, txn),
                                  !.sent = send_to_peers(@, TxId(txn))]]
    IN  after_validate(validate_txn(txn, FALSE, TRUE, S))

accept_txn(txn, S) ==
    LET after_validate(v) ==
            IF v.exc = "TxnValidationError" /\ v.to_orphan
            THEN [exc |-> "none",
                  S |-> [S EXCEPT !.orphan_txns = Append(@, txn)]]
            ELSE IF v.exc /= "none"
            THEN [exc |-> IF v.exc = "TxnValidationError" THEN "none" ELSE v.exc,
                  S |-> S]
            ELSE [exc |-> "none",
                  S |-> [S EXCEPT !.mempool = mempool_set(@, txn),
                                  !.sent = send_to_peers(@, TxId(txn))]]
    IN  after_validate(validate_txn(txn, FALSE, TRUE, S))

----------------------------------------------------------------------------
(* Mining *)

\* select_from_mempool(block), for a block without transactions.  For an
\* input that is not in utxo_set, find_utxo_in_mempool raises AttributeError
\* or returns None; on None add_to_block returns None, which becomes the
\* block, and the next use of the block (block._replace, or block.txns in
\* calculate_fees) raises AttributeError.  Otherwise every transaction of the
\* mempool is taken, in the order of the dict.
select_from_mempool(S) ==
    IF \E k \in DOMAIN S.mempool : \E i \in DOMAIN S.mempool[k].txins :
          utxo_get(S.utxo_set, S.mempool[k].txins[i].to_spend) = NoUTXO
    THEN [exc |-> "AttributeError", txns |-> <<>>]
    ELSE [exc |-> "none", txns |-> S.mempool]

\* calculate_fees(block), for transactions whose inputs are all in utxo_set
calculate_fees(txns, S) ==
    SumSeq([k \in DOMAIN txns |->
        SumSeq([i \in DOMAIN txns[k].txins |->
                   utxo_get(S.utxo_set, txns[k].txins[i].to_spend).value])
          - SumSeq([o \in DOMAIN txns[k].txouts |-> txns[k].txouts[o].value])])

\* assemble_and_solve_block(my_address) up to the call of mine(): the block
\* with nonce 0, and the prev_block_hash it was built on
assemble_block(S, t) ==
    LET prev_block_hash ==
            IF S.active_chain /= <<>>
            THEN BlockId(S.active_chain[Len(S.active_chain)]) ELSE None
        with_txns(bits, txns) ==
            LET with_root(root) ==
                    IF root.exc /= "none"
                    THEN [exc |-> root.exc, block |-> NoBlock]
                    ELSE [exc |-> "none",
                          block |-> Block(prev_block_hash, root.val, t, bits,
                                          0, txns)]
            IN  with_root(get_merkle_root_of_txns(txns))
        with_work(bits, sel) ==
            IF bits.exc /= "none" THEN [exc |-> bits.exc, block |-> NoBlock]
            ELSE IF sel.exc /= "none" THEN [exc |-> sel.exc, block |-> NoBlock]
            ELSE with_txns(bits.val,
                    <<create_coinbase(my_address,
                          get_block_subsidy(S) + calculate_fees(sel.txns, S),
                          Len(S.active_chain))>> \o sel.txns)
    IN  with_work(get_next_work_required(prev_block_hash, S),
                  select_from_mempool(S))

\* whether the nonce search of mine(block) ends: some nonce hashes below the
\* target of the block
mine_solves(block) ==
    Digest([block EXCEPT !.nonce = SOLVING_NONCE]) < Target(block.bits)

----------------------------------------------------------------------------
(* What the peers send *)

\* a transaction of the wallet of pk that spends the outpoints ops, each input
\* signed as Send.handle signs it
Spend(pk, ops, txouts) ==
    Transaction([k \in DOMAIN ops |->
                    TxIn(ops[k],
                         Sign(pk, build_spend_message(ops[k], pk, 0, txouts)),
                         pk, 0)],
                txouts)

peer_address == pubkey_to_address(peer_pk)

\* the coinbase of the first block of a peer: two outputs
cb_first == Transaction(<<TxIn(NoOutPoint, "0", None, 0)>>,
                        <<TxOut(25 * BELUSHIS_PER_COIN, peer_address),
                          TxOut(25 * BELUSHIS_PER_COIN, peer_address)>>)
out_U == OutPoint(TxId(cb_first), 0)
out_W == OutPoint(TxId(cb_first), 1)

\* spends U
tx_A == Spend(peer_pk, <<out_U>>, <<TxOut(25 * BELUSHIS_PER_COIN, "Acarol")>>)
\* spends W and leaves a fee of 5
tx_C == Spend(peer_pk, <<out_W>>, <<TxOut(20 * BELUSHIS_PER_COIN, "Acarol")>>)
\* names U twice as its input
tx_UU == Spend(peer_pk, <<out_U, out_U>>,
               <<TxOut(50 * BELUSHIS_PER_COIN, "Acarol")>>)
\* spends an output nobody has seen
tx_orphan == Spend(peer_pk, <<OutPoint(sha256d("unseen"), 0)>>,
                   <<TxOut(1 * BELUSHIS_PER_COIN, "Acarol")>>)
\* spends U with a signature that does not verify
tx_badsig == [tx_A EXCEPT !.txins[1].unlock_sig = "forged"]

\* the transactions handed to accept_txn when the globals are S: one that
\* spends an output nobody has seen, and, once the block that pays U and W is
\* in the active chain, the transactions of their owner
TxnInputs(S) ==
    {tx_orphan}
      \cup (IF \E k \in DOMAIN S.active_chain :
                  cb_first \in Range(S.active_chain[k].txns)
            THEN {tx_C, tx_badsig} ELSE {})

\* a block as a peer builds it on prev_block_hash
PeerBlock(prev_block_hash, timestamp, bits, nonce, txns) ==
    Block(prev_block_hash, get_merkle_root_of_txns(txns).val, timestamp, bits,
          nonce, txns)

\* the transaction lists of the blocks a peer builds at height h
PeerBodies(h) ==
    {<<create_coinbase(peer_address, 50 * BELUSHIS_PER_COIN, h)>>,
     <<create_coinbase(peer_address, 1050 * BELUSHIS_PER_COIN, h)>>,
     <<create_coinbase(peer_address, 50 * BELUSHIS_PER_COIN, h), tx_C>>,
     <<create_coinbase(peer_address, 50 * BELUSHIS_PER_COIN, h), tx_UU, tx_C>>}
      \cup (IF h = 0 THEN {<<cb_first>>} ELSE {})


StartTime == genesis_block.timestamp + 1

\* a block without a previous block, stamped as far ahead as validate_block
\* lets it be
stray_block ==
    Block(None, get_merkle_root_of_txns(<<cb_first>>).val,
          StartTime + MAX_FUTURE_BLOCK_TIME, INITIAL_DIFFICULTY_BITS,
          SOLVING_NONCE, <<cb_first>>)

\* the blocks handed to connect_block when the globals are S and the time is
\* t: the blocks a peer builds on the tip, the same block with one field
\* wrong, blocks on another parent, blocks already connected, and the genesis
\* literal
BlockInputs(S, t) ==
    LET h == Len(S.active_chain)
        tip == IF h = 0 THEN None ELSE BlockId(S.active_chain[h])
        plain == <<create_coinbase(peer_address, 50 * BELUSHIS_PER_COIN, h)>>
        good == PeerBlock(tip, t, INITIAL_DIFFICULTY_BITS, SOLVING_NONCE, plain)
    IN  {PeerBlock(tip, t, INITIAL_DIFFICULTY_BITS, SOLVING_NONCE, body) :
            body \in PeerBodies(h)}
        \cup {[good EXCEPT !.timestamp = t + MAX_FUTURE_BLOCK_TIME + 1],
              [good EXCEPT !.timestamp = StartTime - 1],
              [good EXCEPT !.bits = INITIAL_DIFFICULTY_BITS - 1],
              [good EXCEPT !.nonce = 0],
              [good EXCEPT !.nonce = BOUNDARY_NONCE],
              [good EXCEPT !.merkle_hash = sha256d("other")],
              [good EXCEPT !.txns = <<>>],
              PeerBlock(tip, t, INITIAL_DIFFICULTY_BITS, SOLVING_NONCE, <<tx_A>>),
              [good EXCEPT !.prev_block_hash = sha256d("unseen")],
              genesis_block}
        \cup (IF h >= 1 THEN {stray_block} ELSE {})
        \cup (IF h >= 2
              THEN {[good EXCEPT !.prev_block_hash = BlockId(S.active_chain[1])]}
              ELSE {})
        \cup Range(S.active_chain)

----------------------------------------------------------------------------
(* The state *)

\* the module globals
G == [active_chain |-> active_chain, side_branches |-> side_branches,
      orig_chain |-> orig_chain, rebound |-> rebound, utxo_set |-> utxo_set,
      mempool |-> mempool, orphan_txns |-> orphan_txns,
      orphan_blocks |-> orphan_blocks, mine_interrupt |-> mine_interrupt,
      sent |-> sent]

SetG(S) ==
    /\ active_chain' = S.active_chain
    /\ side_branches' = S.side_branches
    /\ orig_chain' = S.orig_chain
    /\ rebound' = S.rebound
    /\ utxo_set' = S.utxo_set
    /\ mempool' = S.mempool
    /\ orphan_txns' = S.orphan_txns
    /\ orphan_blocks' = S.orphan_blocks
    /\ mine_interrupt' = S.mine_interrupt
    /\ sent' = S.sent

globals == <<active_chain, side_branches, orig_chain, rebound, utxo_set,
             mempool, orphan_txns, orphan_blocks, mine_interrupt, sent>>

\* the state stays within the bounds of the model
Bounded(S) ==
    /\ Len(S.active_chain) <= MaxChain
    /\ Len(S.orphan_blocks) <= MaxOrphans
    /\ Len(S.orphan_txns) <= MaxOrphans

\* the threads ThreadingTCPServer has running at a time
Handlers == {1, 2}

\* a thread that is not inside connect_block
Idle(pc) == [pc |-> pc, block |-> NoBlock, chain_idx |-> -1]

Init ==
    /\ active_chain = <<>>
    /\ side_branches = <<>>
    /\ orig_chain = <<>>
    /\ rebound = FALSE
    /\ utxo_set = {}
    /\ mempool = <<>>
    /\ orphan_txns = <<>>
    /\ orphan_blocks = <<>>
    /\ mine_interrupt = FALSE
    /\ sent = {}
    /\ now = StartTime
    /\ miner = [pc |-> "assemble", block |-> NoBlock, chain_idx |-> -1]
    /\ handlers = [h \in Handlers |-> Idle("idle")]

----------------------------------------------------------------------------
(* The node, one call at a time *)

\* the clock of the model: a second passes while a block is connected to the
\* active chain
Clock(S, t) == IF Len(S.active_chain) > Len(active_chain) THEN t + 1 ELSE t

\* TCPHandler.handle for a Block: connect_block(block)
ConnectBlock(block) ==
    LET leaves(r) ==
            /\ Bounded(r.S)
            /\ SetG(r.S)
            /\ now' = Clock(r.S, now)
            /\ UNCHANGED <<miner, handlers>>
    IN  leaves(connect_block(block, G, now))

\* TCPHandler.handle for a Transaction: accept_txn(txn)
AcceptTxn(txn) ==
    LET leaves(r) ==
            /\ Bounded(r.S)
            /\ SetG(r.S)
            /\ UNCHANGED <<now, miner, handlers>>
    IN  leaves(accept_txn(txn, G))

\* one round of mine_forever with nothing else running: the block is
\* assembled, mine() clears mine_interrupt and finds the nonce, and the block
\* is connected.  An exception ends the thread.
MineForever ==
    LET connected(r) ==
            /\ Bounded(r.S)
            /\ SetG(r.S)
            /\ now' = Clock(r.S, now)
            /\ miner' = Idle(IF r.exc = "none" THEN "assemble" ELSE "dead")
            /\ UNCHANGED handlers
        assembled(a) ==
            IF a.exc /= "none"
            THEN /\ miner' = Idle("dead")
                 /\ UNCHANGED <<globals, now, handlers>>
            ELSE /\ mine_solves(a.block)
                 /\ connected(connect_block(
                        [a.block EXCEPT !.nonce = SOLVING_NONCE],
                        [G EXCEPT !.mine_interrupt = FALSE], now))
    IN  /\ miner.pc = "assemble"
        /\ assembled(assemble_block(G, now))

Next ==
    \/ \E block \in BlockInputs(G, now) : ConnectBlock(block)
    \/ \E txn \in TxnInputs(G) : AcceptTxn(txn)
    \/ MineForever

Spec == Init /\ [][Next]_vars

----------------------------------------------------------------------------
(* The node with its threads.  validate_block and find_block hold chain_lock;
   connect_block does not, so a thread can be overtaken after either of them.
   The rest of connect_block is taken as one step. *)

\* the blocks the peers send while the threads are watched: two blocks on
\* the tip, by two peers, and the blocks already connected
ThreadBlockInputs(S, t) ==
    LET h == Len(S.active_chain)
        tip == IF h = 0 THEN None ELSE BlockId(S.active_chain[h])
    IN  {PeerBlock(tip, t, INITIAL_DIFFICULTY_BITS, SOLVING_NONCE,
                   <<create_coinbase(a, 50 * BELUSHIS_PER_COIN, h)>>) :
            a \in {peer_address, "Acarol"}}
        \cup Range(S.active_chain)

BoundedRace(S) ==
    /\ Len(S.active_chain) <= MaxRaceChain
    /\ Len(S.orphan_blocks) <= MaxOrphans

\* connect_block up to the return of validate_block, on a thread at `start`:
\* where the thread is afterwards
validated(block, start, end, r) ==
    IF r.exc /= "none" THEN Idle(end)
    ELSE IF r.returned THEN Idle(start)
    ELSE [pc |-> "validated", block |-> block, chain_idx |-> r.chain_idx]

\* the TCP handler h takes a Block message and runs connect_block up to the
\* return of validate_block
HandlerValidate(h, block) ==
    LET leaves(r) ==
            /\ BoundedRace(r.S)
            /\ SetG(r.S)
            /\ handlers' = [handlers EXCEPT
                               ![h] = validated(block, "idle", "idle", r)]
            /\ UNCHANGED <<now, miner>>
    IN  /\ handlers[h].pc = "idle"
        /\ leaves(connect_validate(block, G, now))

\* if find_block(block.id)[0]: return None
HandlerSeen(h) ==
    /\ handlers[h].pc = "validated"
    /\ handlers' = [handlers EXCEPT
                       ![h] = IF connect_seen(handlers[h].block, G)
                              THEN Idle("idle") ELSE [@ EXCEPT !.pc = "unseen"]]
    /\ UNCHANGED <<globals, now, miner>>

\* connect_block from idx_to_chain(chain_idx) to its end
HandlerApply(h) ==
    LET leaves(a) ==
            /\ BoundedRace(a.S)
            /\ SetG(a.S)
            /\ now' = Clock(a.S, now)
            /\ handlers' = [handlers EXCEPT ![h] = Idle("idle")]
            /\ UNCHANGED miner
    IN  /\ handlers[h].pc = "unseen"
        /\ leaves(connect_apply(handlers[h].block, handlers[h].chain_idx, G))

\* assemble_and_solve_block up to the call of mine(): prev_block_hash is read
\* and the block is put together
MinerAssemble ==
    LET leaves(a) ==
            miner' = IF a.exc /= "none" THEN Idle("dead")
                     ELSE [pc |-> "clear", block |-> a.block, chain_idx |-> -1]
    IN  /\ miner.pc = "assemble"
        /\ leaves(assemble_block(G, now))
        /\ UNCHANGED <<globals, now, handlers>>

\* mine(): mine_interrupt.clear() before the loop
MinerClear ==
    /\ miner.pc = "clear"
    /\ miner' = [miner EXCEPT !.pc = "search"]
    /\ SetG([G EXCEPT !.mine_interrupt = FALSE])
    /\ UNCHANGED <<now, handlers>>

\* mine(): the loop reaches nonce POLL_EVERY and looks at mine_interrupt; if
\* it is set the attempt is given up, else the next nonce solves the block
MinerPoll ==
    /\ miner.pc = "search"
    /\ mine_solves(miner.block)
    /\ IF mine_interrupt
       THEN /\ miner' = Idle("assemble")
            /\ SetG([G EXCEPT !.mine_interrupt = FALSE])
       ELSE /\ miner' = [miner EXCEPT !.pc = "found",
                                      !.block.nonce = SOLVING_NONCE]
            /\ UNCHANGED globals
    /\ UNCHANGED <<now, handlers>>

\* mine_forever: connect_block(block), up to the return of validate_block
MinerValidate ==
    LET leaves(r) ==
            /\ BoundedRace(r.S)
            /\ SetG(r.S)
            /\ miner' = validated(miner.block, "assemble", "dead", r)
            /\ UNCHANGED <<now, handlers>>
    IN  /\ miner.pc = "found"
        /\ leaves(connect_validate(miner.block, G, now))

MinerSeen ==
    /\ miner.pc = "validated"
    /\ miner' = IF connect_seen(miner.block, G)
                THEN Idle("assemble") ELSE [miner EXCEPT !.pc = "unseen"]
    /\ UNCHANGED <<globals, now, handlers>>

MinerApply ==
    LET leaves(a) ==
            /\ BoundedRace(a.S)
            /\ SetG(a.S)
            /\ now' = Clock(a.S, now)
            /\ miner' = Idle(IF a.exc = "none" THEN "assemble" ELSE "dead")
            /\ UNCHANGED handlers
    IN  /\ miner.pc = "unseen"
        /\ leaves(connect_apply(miner.block, miner.chain_idx, G))

NextThreads ==
    \/ \E h \in Handlers : \E block \in ThreadBlockInputs(G, now) :
          HandlerValidate(h, block)
    \/ \E h \in Handlers : HandlerSeen(h)
    \/ \E h \in Handlers : HandlerApply(h)
    \/ MinerAssemble
    \/ MinerClear
    \/ MinerPoll
    \/ MinerValidate
    \/ MinerSeen
    \/ MinerApply

SpecThreads == Init /\ [][NextThreads]_vars

----------------------------------------------------------------------------
(* Claims *)

\* the transactions of the active chain, in the order of the chain
chain_txns == txns_of(active_chain)

\* the value of the output an outpoint names, 0 when no transaction of txs
\* has it
OutputValue(txs, op) ==
    LET makers == {k \in DOMAIN txs :
                      /\ TxId(txs[k]) = op.txid
                      /\ op.txout_idx + 1 \in DOMAIN txs[k].txouts}
    IN  IF makers = {} THEN 0
        ELSE txs[CHOOSE k \in makers : TRUE].txouts[op.txout_idx + 1].value

\* C1: every entry of utxo_set is an output of a transaction of the active
\* chain, at the entry's index, with the entry's value and address, and no
\* later transaction of the active chain spends it
C1_UtxoBackedByChain ==
    \A u \in utxo_set : \E k \in DOMAIN chain_txns :
        /\ TxId(chain_txns[k]) = u.txid
        /\ u.tx_idx + 1 \in DOMAIN chain_txns[k].txouts
        /\ chain_txns[k].txouts[u.tx_idx + 1].value = u.value
        /\ chain_txns[k].txouts[u.tx_idx + 1].to_address = u.to_address
        /\ \A j \in DOMAIN chain_txns :
              j > k => \A i \in DOMAIN chain_txns[j].txins :
                          chain_txns[j].txins[i].to_spend /= outpoint(u)

\* C2: no transaction id is a key of the mempool and the id of a transaction
\* of the active chain at the same time
C2_MempoolOffChain ==
    \A m \in DOMAIN mempool : \A k \in DOMAIN chain_txns :
        TxId(mempool[m]) /= TxId(chain_txns[k])

\* a block that forks off: built by a third party on the block with id prev
ForkBlock(prev, t, h, nonce) ==
    PeerBlock(prev, t, INITIAL_DIFFICULTY_BITS, nonce,
              <<create_coinbase("Adave", 50 * BELUSHIS_PER_COIN, h)>>)

\* the candidate branches handed to try_reorg for the fork index f, each with
\* a block that has no proof of work: as its first, or as its second block
ReorgBranches(S, t, f) ==
    LET fork == BlockId(S.active_chain[f + 1])
        B1 == ForkBlock(fork, t, f + 1, SOLVING_NONCE)
    IN  {<<ForkBlock(fork, t, f + 1, 0)>>,
         <<B1, ForkBlock(BlockId(B1), t + 1, f + 2, 0)>>}

\* C3: a try_reorg that returns failure, a block of the branch not being
\* valid, leaves the active chain as it was before the call, for every fork
\* index
C3_FailedReorgKeepsChain ==
    LET kept(r) == (r.exc = "none" /\ ~r.ret) => r.S.active_chain = active_chain
    IN  \A f \in 0..(Len(active_chain) - 1) :
            \A branch \in ReorgBranches(G, now, f) :
                kept(try_reorg(branch, 0, f, G, now))

\* C4: with an active chain G, A1, A2, connecting B1, B2 and B3, a branch
\* that forks off G, makes G, B1, B2, B3 the active chain
C4_LongerBranchPromoted ==
    LET B1 == ForkBlock(BlockId(active_chain[1]), now, 1, SOLVING_NONCE)
        B2 == ForkBlock(BlockId(B1), now + 1, 2, SOLVING_NONCE)
        B3 == ForkBlock(BlockId(B2), now + 2, 3, SOLVING_NONCE)
        after_B3(r) == r.S.active_chain = <<active_chain[1], B1, B2, B3>>
        after_B2(r) == after_B3(connect_block(B3, r.S, now))
        after_B1(r) == after_B2(connect_block(B2, r.S, now))
    IN  Len(active_chain) = 3 => after_B1(connect_block(B1, G, now))

\* C5: two different blocks that extend the same tip are never both in the
\* active chain
C5_OneExtensionPerTip ==
    \A i, j \in DOMAIN active_chain :
        active_chain[i].prev_block_hash = active_chain[j].prev_block_hash
            => active_chain[i] = active_chain[j]

\* C6: while the miner searches a nonce for a block that is not built on the
\* tip of the active chain, before it has polled, mine_interrupt is set
C6_InterruptNotLost ==
    (/\ miner.pc = "search"
     /\ active_chain /= <<>>
     /\ miner.block.prev_block_hash /= BlockId(active_chain[Len(active_chain)]))
        => mine_interrupt

\* the blocks of the active chain and of the side branches
all_blocks == active_chain \o Concat2(side_branches)

\* C7: no block id occurs twice in the active chain and the side branches
C7_NoDuplicateBlockIds ==
    \A i, j \in DOMAIN all_blocks :
        i /= j => BlockId(all_blocks[i]) /= BlockId(all_blocks[j])

\* C8: on an empty active chain, connect_block of the genesis block returns
\* normally, after which the height is 1 and the UTXO set is the one output
\* of the genesis transaction, with its 50 coins
C8_GenesisBootstrap ==
    LET connected(r) ==
            /\ r.exc = "none"
            /\ get_current_height(r.S) = 1
            /\ Cardinality(r.S.utxo_set) = 1
            /\ \A u \in r.S.utxo_set :
                  /\ u.txid = TxId(genesis_txn)
                  /\ u.tx_idx = 0
                  /\ u.value = 50 * BELUSHIS_PER_COIN
    IN  active_chain = <<>> => connected(connect_block(genesis_block, G, now))

\* C9: the hash of every block of the active chain, as an integer, is below
\* 2^(256 - bits)
C9_ChainBelowTarget ==
    \A k \in DOMAIN active_chain :
        Digest(active_chain[k]) < Target(active_chain[k].bits)

\* the outputs of the coinbase transaction of a block, summed
CoinbaseValue(block) ==
    SumSeq([o \in DOMAIN block.txns[1].txouts |-> block.txns[1].txouts[o].value])

\* the fees of a block: what the inputs of its transactions spend less what
\* their outputs pay
BlockFees(block) ==
    SumSeq([k \in 1..(Len(block.txns) - 1) |->
        SumSeq([i \in DOMAIN block.txns[k + 1].txins |->
                   OutputValue(chain_txns, block.txns[k + 1].txins[i].to_spend)])
          - SumSeq([o \in DOMAIN block.txns[k + 1].txouts |->
                       block.txns[k + 1].txouts[o].value])])

\* the subsidy of the block at index h of the active chain
SubsidyAt(h) ==
    get_block_subsidy([active_chain |-> SubSeq(active_chain, 1, h - 1)])

\* C10: up to every height the coinbase outputs of the active chain sum to
\* the subsidies plus the fees, and no block's coinbase pays more than its
\* subsidy plus its fees
C10_CoinbasePaysSubsidyAndFees ==
    \A h \in DOMAIN active_chain :
        /\ SumSeq([k \in 1..h |-> CoinbaseValue(active_chain[k])])
             = SumSeq([k \in 1..h |-> SubsidyAt(k) + BlockFees(active_chain[k])])
        /\ CoinbaseValue(active_chain[h])
             <= SubsidyAt(h) + BlockFees(active_chain[h])

\* spends W into an output of value 0: the whole input becomes the fee
tx_zero == Spend(peer_pk, <<out_W>>, <<TxOut(0, "Acarol")>>)

\* C11: every output of every transaction that accept_txn leaves in the
\* mempool, and of every transaction of a block that connect_block leaves in
\* the active chain, has a value above 0 and at most MAX_MONEY
C11_OutputValuesPositive ==
    LET positive(txns) ==
            \A k \in DOMAIN txns : \A o \in DOMAIN txns[k].txouts :
                /\ txns[k].txouts[o].value > 0
                /\ txns[k].txouts[o].value <= MAX_MONEY
        admitted(r) == positive(r.S.mempool)
        accepted(r) == positive(txns_of(r.S.active_chain))
    IN  /\ \A txn \in TxnInputs(G) \cup {tx_zero} : admitted(accept_txn(txn, G))
        /\ \A block \in BlockInputs(G, now) :
              accepted(connect_block(block, G, now))

\* the key of the wallet an address belongs to
owner_pk(address) == IF address = my_address THEN my_pk ELSE peer_pk

\* C12: a coinbase output recorded by connect_block carries the height of its
\* block in the active chain; validate_txn accepts a transaction of the owner
\* that spends it when COINBASE_MATURITY blocks or more follow that block, so
\* at exactly COINBASE_MATURITY, and rejects it, without the orphan marker,
\* when fewer do
C12_CoinbaseMaturity ==
    LET spend(u) == Spend(owner_pk(u.to_address), <<outpoint(u)>>,
                          <<TxOut(u.value, "Acarol")>>)
        settled(depth, v) ==
            IF depth >= COINBASE_MATURITY THEN v.exc = "none"
            ELSE v.exc = "TxnValidationError" /\ ~v.to_orphan
    IN  \A k \in DOMAIN active_chain : \A u \in utxo_set :
            (u.is_coinbase /\ u.txid = TxId(active_chain[k].txns[1])) =>
                /\ u.height = k
                /\ settled(Len(active_chain) - k,
                           validate_txn(spend(u), FALSE, TRUE, G))

\* accept_txn has admitted the spend of W with exactly COINBASE_MATURITY
\* blocks after the block that pays W
C12_SpentAtMaturity ==
    /\ Len(active_chain) = 1 + COINBASE_MATURITY
    /\ cb_first \in Range(active_chain[1].txns)
    /\ tx_C \in Range(mempool)

\* another transaction of the owner of the outpoint op that spends op
Rival(op) == Spend(peer_pk, <<op>>, <<TxOut(1 * BELUSHIS_PER_COIN, "Adave")>>)

\* C13: when a transaction of a block of the active chain spends an outpoint,
\* validate_txn of another transaction that spends the same outpoint fails
\* with the orphan marker, and accept_txn keeps it out of the mempool
C13_DoubleSpendRejected ==
    LET rejected(txB, v, r) ==
            /\ v.exc = "TxnValidationError" /\ v.to_orphan
            /\ ~in_mempool(r.S.mempool, TxId(txB))
        refused(txB) == rejected(txB, validate_txn(txB, FALSE, TRUE, G),
                                 accept_txn(txB, G))
    IN  \A k \in DOMAIN chain_txns :
            ~is_coinbase(chain_txns[k]) =>
                \A i \in DOMAIN chain_txns[k].txins :
                    refused(Rival(chain_txns[k].txins[i].to_spend))

\* spends the output of tx_C, signed by its owner
tx_child == Spend("carol", <<OutPoint(TxId(tx_C), 0)>>,
                  <<TxOut(20 * BELUSHIS_PER_COIN, "Adave")>>)

\* the transactions a peer may send, whatever the chain is
AllTxns == {tx_orphan, tx_A, tx_C, tx_UU, tx_badsig, tx_zero, tx_child}

\* C14: accept_txn ends in one of three ways.  When validate_txn fails with
\* the orphan marker the transaction is appended to orphan_txns and nothing
\* else changes; when it fails in another way nothing changes; when it passes
\* the transaction is in the mempool and has been sent to every peer, and
\* nothing else changes
C14_AcceptTxnOutcomes ==
    LET outcome(txn, v, r) ==
            IF v.exc = "TxnValidationError" /\ v.to_orphan
            THEN r.S = [G EXCEPT !.orphan_txns = Append(@, txn)]
            ELSE IF v.exc /= "none"
            THEN r.S = G
            ELSE /\ Range(r.S.mempool) = Range(mempool) \cup {txn}
                 /\ in_mempool(r.S.mempool, TxId(txn))
                 /\ r.S.sent = sent \cup {<<p, TxId(txn)>> : p \in Range(peerlist)}
                 /\ r.S = [G EXCEPT !.mempool = r.S.mempool, !.sent = r.S.sent]
    IN  \A txn \in AllTxns :
            outcome(txn, validate_txn(txn, FALSE, TRUE, G), accept_txn(txn, G))

\* accept_txn has put one transaction aside as an orphan, without gossip, and
\* has admitted another, sent to every peer
C14_OrphanedAndAdmitted ==
    /\ orphan_txns = <<tx_orphan>>
    /\ \A p \in Range(peerlist) : <<p, TxId(tx_orphan)>> \notin sent
    /\ mempool = <<tx_C>>
    /\ \A p \in Range(peerlist) : <<p, TxId(tx_C)>> \in sent

\* the globals S with the side branches given.  No call of the code stores a
\* side branch (the connect_block of a fork ends at idx_to_chain), so the
\* state in which the code works on one is built from a reachable state.
WithSideBranches(S, branches) == [S EXCEPT !.side_branches = branches]

\* the blocks a peer builds on the first block of the active chain once
\* another block has forked off there
SideBlocks(S, t) ==
    {PeerBlock(BlockId(S.active_chain[1]), t, INITIAL_DIFFICULTY_BITS,
               SOLVING_NONCE, body) :
        body \in {<<create_coinbase(peer_address, 50 * BELUSHIS_PER_COIN, 1)>>,
                  <<create_coinbase(peer_address, 50 * BELUSHIS_PER_COIN, 1),
                    tx_C>>}}

C16_InterruptFollowsActiveChain ==
    LET cleared(S) == [S EXCEPT !.mine_interrupt = FALSE]
        flagged(r) ==
            /\ r.S.active_chain /= active_chain => r.S.mine_interrupt
            /\ r.S.active_chain = active_chain => ~r.S.mine_interrupt
        stored == <<ForkBlock(BlockId(active_chain[1]), now, 1, SOLVING_NONCE)>>
    IN  /\ \A block \in BlockInputs(G, now) :
              flagged(connect_block(block, cleared(G), now))
        /\ Len(active_chain) >= 2 =>
              \A block \in SideBlocks(G, now) :
                  flagged(connect_block(block,
                      cleared(WithSideBranches(G, <<stored>>)), now))

\* the branches of valid blocks built on the block at position p of the
\* active chain, counted from 0
ValidBranches(S, t, p) ==
    LET fork == BlockId(S.active_chain[p + 1])
        B1 == ForkBlock(fork, t, p + 1, SOLVING_NONCE)
    IN  {<<B1>>, <<B1, ForkBlock(BlockId(B1), t + 1, p + 2, SOLVING_NONCE)>>}

OtherBranch(S, t) ==
    <<PeerBlock(BlockId(S.active_chain[1]), t, INITIAL_DIFFICULTY_BITS,
                SOLVING_NONCE,
                <<create_coinbase("Aerin", 50 * BELUSHIS_PER_COIN, 1)>>)>>

\* the blocks of the active chain and of the side branches of S
known_blocks(S) == Range(S.active_chain) \cup Range(Concat2(S.side_branches))

C20_ForkStartsNewBranch ==
    LET started(stored, block, r) ==
            /\ r.exc = "none"
            /\ r.ret = Len(stored) + 1
            /\ r.S.side_branches = Append(stored, <<block>>)
        forked(stored, block) ==
            started(stored, block,
                    connect_block(block, WithSideBranches(G, stored), now))
    IN  \A p \in 0..(Len(active_chain) - 2) :
            /\ forked(<<>>, ForkBlock(BlockId(active_chain[p + 1]), now, p + 1,
                                      SOLVING_NONCE))
            /\ p >= 1 =>
                  forked(<<OtherBranch(G, now)>>,
                         ForkBlock(BlockId(active_chain[p + 1]), now, p + 1,
                                   SOLVING_NONCE))

\* longest list of txids handed to get_merkle_root
MaxLeaves == 6

\* the lists of txids handed to get_merkle_root when the globals are S: every
\* list of 1 to MaxLeaves ids of transactions of the tip of the active chain
MerkleInputs(S) ==
    LET tip == S.active_chain[Len(S.active_chain)]
        ids == {TxId(tip.txns[k]) : k \in DOMAIN tip.txns}
    IN  IF S.active_chain = <<>> THEN {}
        ELSE UNION {[1..n -> ids] : n \in 1..MaxLeaves}

\* the root of a level of nodes when every level of odd length has its last
\* node repeated before it is paired
RECURSIVE PairedRoot(_)
PairedRoot(nodes) ==
    LET padded == IF Len(nodes) % 2 = 1
                  THEN Append(nodes, nodes[Len(nodes)]) ELSE nodes
        paired == [k \in 1..(Len(padded) \div 2) |->
                      sha256d(padded[2 * k - 1] \o padded[2 * k])]
    IN  IF Len(paired) = 1 THEN paired[1] ELSE PairedRoot(paired)

\* C21: for every list of 1 to MaxLeaves txids get_merkle_root returns the
\* root got by pairing the hashed txids level by level, the last node of a
\* level of odd length repeated
C21_MerkleRootOfEveryLength ==
    LET rooted(leaves, r) ==
            /\ r.exc = "none"
            /\ r.val = PairedRoot([k \in DOMAIN leaves |-> sha256d(leaves[k])])
    IN  \A leaves \in MerkleInputs(G) : rooted(leaves, get_merkle_root(leaves))

\* the difficulty period, in blocks, with which the retarget is watched: the
\* 600 blocks of Params are beyond the chains of the model
ShortPeriod == 2

\* the bits of the block after the block at height h, counted from 0, of a
\* chain, when the difficulty is set anew every ShortPeriod blocks
RetargetedBits(chain, h) ==
    LET prev == chain[h + 1]
        first == IF h - (ShortPeriod - 1) > 0 THEN h - (ShortPeriod - 1) ELSE 0
        taken == prev.timestamp - chain[first + 1].timestamp
    IN  IF (h + 1) % ShortPeriod /= 0 THEN prev.bits
        ELSE IF taken < DIFFICULTY_PERIOD_IN_SECS_TARGET THEN prev.bits + 1
        ELSE IF taken > DIFFICULTY_PERIOD_IN_SECS_TARGET THEN prev.bits - 1
        ELSE prev.bits

\* C22: get_next_work_required returns INITIAL_DIFFICULTY_BITS for no
\* previous block; for a previous block of the active chain, or of a side
\* branch, at height h of its chain it returns that block's bits unless h + 1
\* is a multiple of the period, and then the bits one up, one down or as they
\* are as the period took less than, more than or just
\* DIFFICULTY_PERIOD_IN_SECS_TARGET
C22_NextWorkRequired ==
    LET agrees(r, bits) == r.exc = "none" /\ r.val = bits
        on_branch(branch) ==
            agrees(next_work_required(BlockId(branch[1]),
                                      WithSideBranches(G, <<branch>>),
                                      ShortPeriod),
                   RetargetedBits(<<active_chain[1]>> \o branch, 1))
    IN  /\ agrees(next_work_required(None, G, ShortPeriod),
                  INITIAL_DIFFICULTY_BITS)
        /\ \A h \in 0..(Len(active_chain) - 1) :
              agrees(next_work_required(BlockId(active_chain[h + 1]), G,
                                        ShortPeriod),
                     RetargetedBits(active_chain, h))
        /\ active_chain /= <<>> => on_branch(OtherBranch(G, now))

\* a block a peer builds on the tip with another spend of W in it
RivalBlocks(S, t) ==
    LET h == Len(S.active_chain)
    IN  IF h = 0 THEN {}
        ELSE {PeerBlock(BlockId(S.active_chain[h]), t, INITIAL_DIFFICULTY_BITS,
                        SOLVING_NONCE,
                        <<create_coinbase(peer_address, 50 * BELUSHIS_PER_COIN, h),
                          Rival(out_W)>>)}

\* every input of txn is in the UTXO set of S or is an output of a
\* transaction of the mempool of S
Resolves(txn, S) ==
    \A i \in DOMAIN txn.txins :
        \/ utxo_get(S.utxo_set, txn.txins[i].to_spend) /= NoUTXO
        \/ in_mempool(S.mempool, txn.txins[i].to_spend.txid)

\* C23: select_from_mempool returns; no transaction is in its selection
\* twice; a selected transaction comes after every transaction of the mempool
\* whose output it spends; the selection leaves out the transactions with an
\* input that is neither in the UTXO set nor in the mempool and has all the
\* others.  This holds as the node stands and after a peer's block has spent
\* the input of a mempool transaction.
C23_SelectionOrderedAndSkipping ==
    LET chosen(S, sel) ==
            /\ sel.exc = "none"
            /\ \A i, j \in DOMAIN sel.txns :
                  i /= j => TxId(sel.txns[i]) /= TxId(sel.txns[j])
            /\ \A j \in DOMAIN sel.txns : \A n \in DOMAIN sel.txns[j].txins :
                  in_mempool(S.mempool, sel.txns[j].txins[n].to_spend.txid) =>
                      \E i \in 1..(j - 1) :
                          TxId(sel.txns[i]) = sel.txns[j].txins[n].to_spend.txid
            /\ Range(sel.txns) = {txn \in Range(S.mempool) : Resolves(txn, S)}
        selects(S) == chosen(S, select_from_mempool(S))
        after(r) == selects(r.S)
    IN  /\ selects(G)
        /\ \A block \in RivalBlocks(G, now) : after(connect_block(block, G, now))

\* a block a peer builds on the tip with two transactions that spend W
TwiceBlocks(S, t) ==
    LET h == Len(S.active_chain)
    IN  IF h = 0 THEN {}
        ELSE {PeerBlock(BlockId(S.active_chain[h]), t, INITIAL_DIFFICULTY_BITS,
                        SOLVING_NONCE,
                        <<create_coinbase(peer_address, 50 * BELUSHIS_PER_COIN, h),
                          tx_C, Rival(out_W)>>)}

\* the inputs of the transactions of the active chain but the coinbases': the
\* place of each, as <<transaction, input>>
chain_spends ==
    {<<k, i>> \in (DOMAIN chain_txns) \X (1..2) :
        /\ ~is_coinbase(chain_txns[k])
        /\ i \in DOMAIN chain_txns[k].txins}

\* C24: no two inputs of transactions of the active chain name the same
\* outpoint, and validate_block rejects a block with two transactions that
\* spend the same output
C24_NoDoubleSpendOnChain ==
    LET rejected(v) == v.exc = "BlockValidationError"
    IN  /\ \A a, b \in chain_spends :
              a /= b => chain_txns[a[1]].txins[a[2]].to_spend
                          /= chain_txns[b[1]].txins[b[2]].to_spend
        /\ \A block \in TwiceBlocks(G, now) :
              rejected(validate_block(block, G, now))

\* every block of the active chain but the first names the block before it
hash_linked(chain) ==
    \A i \in 2..Len(chain) : chain[i].prev_block_hash = BlockId(chain[i - 1])

\* C25: a non-empty active chain starts with the genesis block, and every
\* later block of it names the block before it as its previous block
C25_ChainLinkedFromGenesis ==
    active_chain /= <<>> =>
        /\ active_chain[1] = genesis_block
        /\ hash_linked(active_chain)

\* C26: connect_block leaves the chains, the UTXO set and the mempool as they
\* were, or it returns with the block appended to the active chain, none of
\* the block's transactions in the mempool, none of their inputs in the UTXO
\* set and every one of their outputs in it
C26_ConnectAllOrNothing ==
    LET nothing(r) ==
            /\ r.S.active_chain = active_chain
            /\ r.S.side_branches = side_branches
            /\ r.S.utxo_set = utxo_set
            /\ r.S.mempool = mempool
        all(block, r) ==
            /\ r.exc = "none"
            /\ r.S.active_chain = Append(active_chain, block)
            /\ \A k \in DOMAIN block.txns :
                  /\ ~in_mempool(r.S.mempool, TxId(block.txns[k]))
                  /\ \A o \in DOMAIN block.txns[k].txouts :
                        utxo_get(r.S.utxo_set,
                                 OutPoint(TxId(block.txns[k]), o - 1)) /= NoUTXO
                  /\ ~is_coinbase(block.txns[k]) =>
                        \A i \in DOMAIN block.txns[k].txins :
                            utxo_get(r.S.utxo_set,
                                     block.txns[k].txins[i].to_spend) = NoUTXO
        whole(block, r) == nothing(r) \/ all(block, r)
    IN  \A block \in BlockInputs(G, now) \cup TwiceBlocks(G, now) :
            whole(block, connect_block(block, G, now))

\* the inputs of the transactions of a mempool: the place of each, as
\* <<transaction, input>>
pool_spends(pool) ==
    {<<k, i>> \in (DOMAIN pool) \X (1..2) : i \in DOMAIN pool[k].txins}

----------------------------------------------------------------------------
(* Block synchronisation *)

\* CHUNK_SIZE of GetBlocks.handle
CHUNK_SIZE == 50

\* GetBlocks(from_blockid).handle: the payload of the Inv('block', blocks)
\* it sends.  find_block is called with its default chain, and a height of
\* None or of 0 becomes 1.
GetBlocks_handle(from_blockid, S) ==
    LET blocks(found) ==
            IF ~found.found \/ found.height = 0
            THEN Slice(S.active_chain, 1, 1 + CHUNK_SIZE)
            ELSE Slice(S.active_chain, found.height, found.height + CHUNK_SIZE)
    IN  blocks(find_block(from_blockid, S.orig_chain, S))

\* the loop `for block in not_in_chain: connect_block(block)` of Inv.handle;
\* an exception of connect_block ends the handler
RECURSIVE connect_each(_, _, _)
connect_each(blocks, S, t) ==
    LET rest(r) == IF r.exc /= "none" THEN [exc |-> r.exc, S |-> r.S]
                   ELSE connect_each(Tail(blocks), r.S, t)
    IN  IF blocks = <<>> THEN [exc |-> "none", S |-> S]
        ELSE rest(connect_block(Head(blocks), S, t))

\* Inv(type, payload).handle at time t: `request` is the from_blockid of the
\* GetBlocks it sends, "None" when it sends none.  The payload of a block
\* Inv is a list of Block, as GetBlocks.handle sends it, and find_block
\* compares the id of each block of the chains, a str, with the Block given:
\* they are never equal, so not_in_chain is the whole payload.  The payload of
\* a transaction Inv is stored in the mempool under the id of each.
Inv_handle(type, payload, S, t) ==
    LET not_in_chain == payload
        requested(r) ==
            IF r.exc /= "none" THEN [exc |-> r.exc, S |-> r.S, request |-> "None"]
            ELSE IF r.S.active_chain = <<>>
            THEN [exc |-> "IndexError", S |-> r.S, request |-> "None"]
            ELSE [exc |-> "none", S |-> r.S,
                  request |-> BlockId(r.S.active_chain[Len(r.S.active_chain)])]
        unseen == SelectSeq(payload,
                      LAMBDA tx : \A k \in DOMAIN S.mempool :
                                      TxId(S.mempool[k]) /= TxId(tx))
    IN  IF type = "block"
        THEN IF not_in_chain = <<>>
             THEN [exc |-> "none", S |-> S, request |-> "None"]
             ELSE requested(connect_each(not_in_chain, S, t))
        ELSE [exc |-> "none", S |-> [S EXCEPT !.mempool = @ \o unseen],
              request |-> "None"]

\* the GetBlocks requests a peer answers in the exchange that
\* GetBlocks(from_blockid) starts between two peers whose globals are S,
\* counted up to n
RECURSIVE requests_answered(_, _, _, _)
requests_answered(from_blockid, S, t, n) ==
    LET next(r) == IF r.exc /= "none" \/ r.request = "None" THEN 1
                   ELSE 1 + requests_answered(r.request, r.S, t, n - 1)
    IN  IF n = 0 THEN 0
        ELSE next(Inv_handle("block", GetBlocks_handle(from_blockid, S), S, t))

\* the requests after which an exchange counts as one that does not stop
MaxRequests == 4

\* the ids a GetBlocks can carry: the id of each block the node holds, and
\* one it does not hold
SyncRequests(S) == {BlockId(b) : b \in known_blocks(S)} \cup {"unknown"}

====
